---- MODULE Spec2Model ----
(***************************************************************************)
(* Statistical inference core of the checkout A/B test:                    *)
(*   src/src/stats_utils.py and the analysis script                        *)
(*   src/notebooks/03_statistical_analysis.py.                             *)
(*                                                                         *)
(* Numbers of the proportion-inference functions are binary floating-point *)
(* values, rounded to nearest (ties to even) after every operation as      *)
(* IEEE-754 does.  The mantissa width is Prec bits instead of the 53 bits  *)
(* of binary64, so that products fit the model checker's integers; the     *)
(* rounding rule itself is the binary64 one.                               *)
(***************************************************************************)
EXTENDS Integers, Sequences, FiniteSets

VARIABLES
    pc,        \* position of the calling script
    fn,        \* name of the stats_utils function last called
    args,      \* its arguments
    ret,       \* its return value
    sizes,     \* results printed by the power-analysis loop so far
    rng,       \* state of the generator object of the running resampling loop
    diffs,     \* bootstrap_mean_diff: the resampled differences so far
    perm,      \* permutation test: the last shuffle, as indices into combined
    perm_diffs,\* permutation test: the permuted differences so far
    ref,       \* an earlier finished resampling call, kept for comparison
    halves,    \* temporal stability: the windows evaluated so far
    records,   \* generate_dataset: the records appended so far
    day_idx    \* generate_dataset: the day being generated

propVars == <<sizes>>
resampleVars == <<rng, diffs, perm, perm_diffs, ref>>
dataVars == <<halves, records, day_idx>>
vars == <<pc, fn, args, ret, sizes, rng, diffs, perm, perm_diffs, ref,
          halves, records, day_idx>>

----------------------------------------------------------------------------
(* Bounds of the model *)

Prec == 10          \* mantissa bits of the floating-point numbers
MaxN == 7           \* largest nobs passed to compute_confidence_interval
MaxLiftN == 3       \* largest group size passed to compute_lift_ci
MaxBoot == 3        \* largest n_boot
MaxRows == 4        \* most rows of a dataset
NPermutations == 3  \* iterations of the permutation loop (10000 in the script)
MaxDate == 2        \* latest date of a dated dataset, the earliest being 0
MaxDatedRows == 3   \* most rows of a dated dataset
NDays == 2          \* days generate_dataset runs over (N_DAYS, 21 in the script)

----------------------------------------------------------------------------
(* Floating-point arithmetic (numpy float64 semantics at Prec bits)         *)

Abs(x) == IF x < 0 THEN -x ELSE x
Sgn(x) == IF x < 0 THEN -1 ELSE IF x > 0 THEN 1 ELSE 0

RECURSIVE BitLen(_)
BitLen(a) == IF a = 0 THEN 0 ELSE 1 + BitLen(a \div 2)

\* a finite value m * 2^e, an infinity of sign m, or a NaN
Fin(m, e) == [k |-> "fin", m |-> m, e |-> e]
Inf(s) == [k |-> "inf", m |-> s, e |-> 0]
NaN == [k |-> "nan", m |-> 0, e |-> 0]
Zero == Fin(0, 0)

\* the float nearest to m * 2^e, ties to even
Round(m, e) ==
    IF m = 0 THEN Zero
    ELSE LET a == Abs(m)
             k == BitLen(a) - Prec
         IN  IF k <= 0
             THEN Fin(Sgn(m) * a * 2^(-k), e + k)
             ELSE LET q == a \div 2^k
                      r == a % 2^k
                      half == 2^(k - 1)
                      up == IF r > half \/ (r = half /\ q % 2 = 1)
                            THEN q + 1 ELSE q
                  IN  IF up = 2^Prec
                      THEN Fin(Sgn(m) * 2^(Prec - 1), e + k + 1)
                      ELSE Fin(Sgn(m) * up, e + k)

FromInt(n) == Round(n, 0)

FNeg(x) == [x EXCEPT !.m = -x.m]

FAdd(x, y) ==
    IF x.k = "nan" \/ y.k = "nan" THEN NaN
    ELSE IF x.k = "inf" /\ y.k = "inf"
         THEN (IF x.m = y.m THEN x ELSE NaN)
    ELSE IF x.k = "inf" THEN x
    ELSE IF y.k = "inf" THEN y
    ELSE IF x.m = 0 THEN y
    ELSE IF y.m = 0 THEN x
    ELSE LET hi == IF x.e >= y.e THEN x ELSE y
             lo == IF x.e >= y.e THEN y ELSE x
             d == hi.e - lo.e
         IN  IF d <= Prec + 2
             THEN Round(hi.m * 2^d + lo.m, lo.e)
             ELSE Round(hi.m * 8 + Sgn(lo.m), hi.e - 3)

FSub(x, y) == FAdd(x, FNeg(y))

FMul(x, y) ==
    IF x.k = "nan" \/ y.k = "nan" THEN NaN
    ELSE IF x.k = "inf" \/ y.k = "inf"
         THEN (IF x.m = 0 \/ y.m = 0 THEN NaN ELSE Inf(Sgn(x.m) * Sgn(y.m)))
    ELSE Round(x.m * y.m, x.e + y.e)

FDiv(x, y) ==
    IF x.k = "nan" \/ y.k = "nan" THEN NaN
    ELSE IF x.k = "inf"
         THEN (IF y.k = "inf" THEN NaN
               ELSE Inf(x.m * (IF y.m < 0 THEN -1 ELSE 1)))
    ELSE IF y.k = "inf" THEN Zero
    ELSE IF y.m = 0
         THEN (IF x.m = 0 THEN NaN ELSE Inf(Sgn(x.m)))
    ELSE IF x.m = 0 THEN Zero
    ELSE LET a == Abs(x.m) * 2^(Prec + 2)
             b == Abs(y.m)
             q == a \div b
             sticky == IF a % b = 0 THEN 0 ELSE 1
         IN  Round(Sgn(x.m) * Sgn(y.m) * (2 * q + sticky),
                   x.e - y.e - Prec - 3)

RECURSIVE ISqrtBits(_, _, _)
\* largest r with r * r <= n, found one bit at a time from bit b down
ISqrtBits(n, r, b) ==
    IF b = 0 THEN r
    ELSE ISqrtBits(n, IF (r + b) * (r + b) <= n THEN r + b ELSE r, b \div 2)

ISqrt(n) == ISqrtBits(n, 0, 2^(Prec + 2))

FSqrt(x) ==
    IF x.k = "nan" THEN NaN
    ELSE IF x.k = "inf" THEN (IF x.m > 0 THEN x ELSE NaN)
    ELSE IF x.m < 0 THEN NaN
    ELSE IF x.m = 0 THEN Zero
    ELSE LET j == IF (x.e - (Prec + 3)) % 2 = 0 THEN Prec + 3 ELSE Prec + 4
             n == x.m * 2^j
             r == ISqrt(n)
             sticky == IF r * r = n THEN 0 ELSE 1
         IN  Round(2 * r + sticky, ((x.e - j) \div 2) - 1)

\* IEEE comparisons: every comparison with a NaN is false
FLeq(x, y) ==
    /\ x.k # "nan"
    /\ y.k # "nan"
    /\ \/ x = y
       \/ FSub(x, y).m < 0

FEq(x, y) == x.k # "nan" /\ y.k # "nan" /\ x = y

One == FromInt(1)
Two == FromInt(2)

\* int(np.ceil(x)) of a finite x
ICeil(x) ==
    IF x.e >= 0 THEN x.m * 2^(x.e)
    ELSE IF -x.e > 30 THEN (IF x.m > 0 THEN 1 ELSE 0)
    ELSE LET d == 2^(-x.e) IN
         IF x.m >= 0 THEN (x.m + d - 1) \div d ELSE -((-x.m) \div d)

----------------------------------------------------------------------------
(* src/src/stats_utils.py                                                   *)

\* significance levels and powers, in thousandths
Alphas == {10, 50, 100}
Powers == {800, 900}

Permille(x) == FDiv(FromInt(x), FromInt(1000))

\* scipy's standard normal quantiles z_{1 - alpha/2} and z_{power},
\* tabulated in thousandths
UpperCritThousandths(alpha) ==
    CASE alpha = 10 -> 2576
      [] alpha = 50 -> 1960
      [] alpha = 100 -> 1645

PowerQuantileThousandths(power) ==
    CASE power = 800 -> 842
      [] power = 900 -> 1282

\* stats.norm.ppf(1 - alpha / 2), also statsmodels' norm.isf(alpha / 2)
NormPpfLower(alpha) == FNeg(Permille(UpperCritThousandths(alpha)))
NormPpfUpper(alpha) == Permille(UpperCritThousandths(alpha))

NormPpfPower(power) == Permille(PowerQuantileThousandths(power))

\* statsmodels proportion_confint(count, nobs, alpha, method='wilson')
WilsonRadicand(q, crit2, nobs) ==
    FAdd(FDiv(FMul(q, FSub(One, q)), FromInt(nobs)),
         FDiv(crit2, FMul(FromInt(4), FromInt(nobs * nobs))))

proportion_confint(count, nobs, alpha) ==
    LET q == FDiv(FromInt(count), FromInt(nobs))
        crit == NormPpfUpper(alpha)
        crit2 == FMul(crit, crit)
        denom == FAdd(One, FDiv(crit2, FromInt(nobs)))
        center == FDiv(FAdd(q, FDiv(crit2, FromInt(2 * nobs))), denom)
        dist == FDiv(FMul(crit, FSqrt(WilsonRadicand(q, crit2, nobs))), denom)
    IN  [k |-> "interval", lo |-> FSub(center, dist), hi |-> FAdd(center, dist)]

compute_confidence_interval(count, nobs, alpha) ==
    proportion_confint(count, nobs, alpha)

LiftCrit(alpha) == NormPpfUpper(alpha)

compute_lift_ci(rate_control, rate_treatment, n_control, n_treatment, alpha) ==
    LET diff == FSub(rate_treatment, rate_control)
        se == FSqrt(FAdd(
                  FDiv(FMul(rate_control, FSub(One, rate_control)),
                       FromInt(n_control)),
                  FDiv(FMul(rate_treatment, FSub(One, rate_treatment)),
                       FromInt(n_treatment))))
        z == LiftCrit(alpha)
    IN  [k |-> "lift", diff |-> diff,
         lo |-> FSub(diff, FMul(z, se)), hi |-> FAdd(diff, FMul(z, se))]

\* np.arcsin(np.sqrt(p)) for p = quarters / 4: a multiple of pi / 12 on
\* [0, 1], NaN outside (sqrt of a negative, arcsin of more than 1)
ArcsinSqrt(quarters) ==
    IF quarters < 0 \/ quarters > 4 THEN NaN
    ELSE LET twelfths == CASE quarters = 0 -> 0
                           [] quarters = 1 -> 2
                           [] quarters = 2 -> 3
                           [] quarters = 3 -> 4
                           [] quarters = 4 -> 6
         IN  FDiv(FMul(FromInt(twelfths), FromInt(31416)), FromInt(120000))

cohens_h_sum(p1, p2) == FMul(Two, FAdd(ArcsinSqrt(p1), ArcsinSqrt(p2)))
cohens_h(p1, p2) == FMul(Two, FSub(ArcsinSqrt(p1), ArcsinSqrt(p2)))

\* NormalIndPower().solve_power(effect_size, alpha, power, ratio=1.0,
\* alternative='two-sided') for nobs1: the normal-approximation power
\* equation solved for the per-group size, (z_a + z_b)^2 * 2 / es^2
SolvePower(effect_size, alpha, power) ==
    LET zs == FAdd(NormPpfUpper(alpha), NormPpfPower(power))
    IN  FDiv(FMul(Two, FMul(zs, zs)), FMul(effect_size, effect_size))

EffectSizeInverted(baseline_rate, mde) ==
    FDiv(FSqrt(FMul(baseline_rate, FSub(One, baseline_rate))), mde)
EffectSize(baseline_rate, mde) ==
    FDiv(mde, FSqrt(FMul(baseline_rate, FSub(One, baseline_rate))))

required_sample_size(baseline_rate, mde, alpha, power) ==
    LET n == SolvePower(EffectSize(baseline_rate, mde), alpha, power)
    IN  IF n.k = "fin" THEN [k |-> "int", v |-> ICeil(n)]
        ELSE [k |-> "raise", v |-> 0]

----------------------------------------------------------------------------
(* Exact fractions, for the means and percentiles of the resampling loops   *)

RECURSIVE GCD(_, _)
GCD(a, b) == IF b = 0 THEN a ELSE GCD(b, a % b)

\* n / d in lowest terms, d > 0
Rat(n, d) == LET g == GCD(Abs(n), d) IN [num |-> n \div g, den |-> d \div g]
RInt(n) == [num |-> n, den |-> 1]
RAdd(x, y) == Rat(x.num * y.den + y.num * x.den, x.den * y.den)
RSub(x, y) == Rat(x.num * y.den - y.num * x.den, x.den * y.den)
RMul(x, y) == Rat(x.num * y.num, x.den * y.den)
RAbs(x) == [x EXCEPT !.num = Abs(x.num)]
RLeq(x, y) == x.num * y.den <= y.num * x.den
RLt(x, y) == x.num * y.den < y.num * x.den

RECURSIVE SumInts(_)
SumInts(s) == IF s = <<>> THEN 0 ELSE Head(s) + SumInts(Tail(s))

RECURSIVE SumRats(_)
SumRats(s) == IF s = <<>> THEN RInt(0) ELSE RAdd(Head(s), SumRats(Tail(s)))

\* ndarray.mean() of integers and of fractions
MeanInts(s) == Rat(SumInts(s), Len(s))
MeanRats(s) == RMul(SumRats(s), Rat(1, Len(s)))

RECURSIVE Insert(_, _)
Insert(x, s) ==
    IF s = <<>> THEN <<x>>
    ELSE IF RLeq(x, Head(s)) THEN <<x>> \o s
    ELSE <<Head(s)>> \o Insert(x, Tail(s))

RECURSIVE Sorted(_)
Sorted(s) == IF s = <<>> THEN <<>> ELSE Insert(Head(s), Sorted(Tail(s)))

\* np.percentile(a, 100 * q) with the default linear interpolation:
\* the value at the virtual index (n - 1) * q of the sorted array
Percentile(a, q) ==
    LET n == Len(a)
        srt == Sorted(a)
        h == RMul(RInt(n - 1), q)
        j == h.num \div h.den
        g == RSub(h, RInt(j))
        below == srt[j + 1]
        above == srt[IF j + 2 <= n THEN j + 2 ELSE n]
    IN  RAdd(below, RMul(g, RSub(above, below)))

----------------------------------------------------------------------------
(* numpy's Generator, as a 16-bit linear congruential generator             *)

Unseeded == -1

NextState(s) == (s * 25173 + 13849) % 65536

\* a draw from 0..n-1 out of the state just reached
Bounded(s, n) == (s \div 256) % n

SeedState(seed) == NextState(seed % 65536)

\* a generator that is created once and shared by the calls after it
default_rng_shared(seed) == IF rng = Unseeded THEN SeedState(seed) ELSE rng
\* np.random.default_rng(seed): a fresh generator whose state is the seed's
default_rng(seed) == SeedState(seed)

RECURSIVE rng_choice(_, _, _)
\* rng.choice(arr, size=size, replace=True)
rng_choice(s, arr, size) ==
    IF size = 0 THEN [out |-> <<>>, rng |-> s]
    ELSE LET r == rng_choice(s, arr, size - 1)
             s1 == NextState(r.rng)
         IN  [out |-> Append(r.out, arr[Bounded(s1, Len(arr)) + 1]), rng |-> s1]

RECURSIVE Shuffle(_, _, _)
\* Fisher-Yates: position i takes an element of positions 1..i
Shuffle(s, idx, i) ==
    IF i <= 1 THEN [out |-> idx, rng |-> s]
    ELSE LET s1 == NextState(s)
             j == Bounded(s1, i) + 1
         IN  Shuffle(s1, [idx EXCEPT ![i] = idx[j], ![j] = idx[i]], i - 1)

\* rng.shuffle(x) reorders x itself, here the converted column of df
rng_shuffle_in_place(df, p) ==
    [i \in 1..Len(df) |-> [df[i] EXCEPT !.converted = df[p[i]].converted]]
\* rng.permutation(x) returns a shuffled copy: x, a view of the converted
\* column of df, is what it was
AfterPermutation(df, p) == df
\* rng.choice(arr, ...) returns a new array: arr is what it was
AfterChoice(arr, sample) == arr

\* n independent draws of an index: resampling, not a shuffle
rng_choice_indices(s, n) == rng_choice(s, [k \in 1..n |-> k], n)
\* rng.permutation(x) for an x of n elements, as the indices it picks
rng_permutation(s, n) == Shuffle(s, [k \in 1..n |-> k], n)

----------------------------------------------------------------------------
(* bootstrap_mean_diff, src/src/stats_utils.py lines 52-62                  *)

\* diffs[i] = sample_b.mean() - sample_a.mean()
MeanSum(sample_a, sample_b) == RAdd(MeanInts(sample_b), MeanInts(sample_a))
MeanDiff(sample_a, sample_b) == RSub(MeanInts(sample_b), MeanInts(sample_a))

\* the two percentile levels (1 - ci) / 2 and (1 + ci) / 2, ci in twentieths
TailLevelsSwapped(ci) == <<Rat(20 + ci, 40), Rat(20 - ci, 40)>>
TailLevels(ci) == <<Rat(20 - ci, 40), Rat(20 + ci, 40)>>

\* line 62: return diffs.mean(), lo, hi
BootstrapResult(ds, ci) ==
    [k |-> "boot", point |-> MeanRats(ds),
     lo |-> Percentile(ds, TailLevels(ci)[1]),
     hi |-> Percentile(ds, TailLevels(ci)[2])]

----------------------------------------------------------------------------
(* The permutation test, src/notebooks/03_statistical_analysis.py 146-156   *)

PermSeed == 42

Rows == [group : {"control", "treatment"}, converted : {0, 1}]

RECURSIVE Select(_, _)
\* df[df.group == g]
Select(df, g) ==
    IF df = <<>> THEN <<>>
    ELSE IF Head(df).group = g THEN <<Head(df)>> \o Select(Tail(df), g)
    ELSE Select(Tail(df), g)

Converted(df) == [i \in 1..Len(df) |-> df[i].converted]

\* lines 28-29, 51-53, 148-149
n_ctrl(df) == Len(Select(df, "control"))
n_treat(df) == Len(Select(df, "treatment"))
cvr_ctrl(df) == MeanInts(Converted(Select(df, "control")))
cvr_treat(df) == MeanInts(Converted(Select(df, "treatment")))
observed_diff(df) == RSub(cvr_treat(df), cvr_ctrl(df))
combined(df) == Converted(df)

\* perm[:n_treat] and perm[n_treat:n_treat+n_ctrl] of the shuffle p
PseudoTreat(df, p) == [i \in 1..n_treat(df) |-> combined(df)[p[i]]]
PseudoCtrl(df, p) ==
    [i \in 1..n_ctrl(df) |-> combined(df)[p[n_treat(df) + i]]]

\* line 154
PermDiff(df, p) == RSub(MeanInts(PseudoTreat(df, p)), MeanInts(PseudoCtrl(df, p)))

\* line 155: np.abs(perm_diffs) >= np.abs(observed_diff)
StrictlyMoreExtreme(d, obs) == RLt(RAbs(obs), RAbs(d))
AtLeastAsExtreme(d, obs) == RLeq(RAbs(obs), RAbs(d))

RECURSIVE CountExtreme(_, _)
CountExtreme(ds, obs) ==
    IF ds = <<>> THEN 0
    ELSE (IF AtLeastAsExtreme(Head(ds), obs) THEN 1 ELSE 0)
         + CountExtreme(Tail(ds), obs)

\* the mean of the boolean array
PermPValue(ds, obs) == Rat(CountExtreme(ds, obs), Len(ds))

----------------------------------------------------------------------------
(* The calls of src/notebooks/03_statistical_analysis.py, sections 1 and 2  *)

NoValue == [k |-> "none"]

\* minimum detectable effects of one power-analysis loop, in thousandths
MdeLists == {<<3, 4, 5>>, <<5, 3, 4>>, <<4, 50, 400>>, <<400, 4, 4>>}
BaselineRates == {0, 32, 500, 1000}

\* proportions handed to cohens_h, in quarters; -1 and 5 are out of range
Quarters == -1..5

Init ==
    /\ pc = "idle"
    /\ fn = "none"
    /\ args = NoValue
    /\ ret = NoValue
    /\ sizes = <<>>
    /\ rng = Unseeded
    /\ diffs = <<>>
    /\ perm = <<>>
    /\ perm_diffs = <<>>
    /\ ref = NoValue
    /\ halves = <<>>
    /\ records = <<>>
    /\ day_idx = 0

\* lines 68-69: ci = compute_confidence_interval(conv, n)
CallConfidenceInterval ==
    /\ pc = "idle"
    /\ \E count \in 0..(MaxN + 1), nobs \in 0..MaxN, alpha \in Alphas :
          /\ fn' = "compute_confidence_interval"
          /\ args' = [count |-> count, nobs |-> nobs, alpha |-> alpha]
          /\ ret' = compute_confidence_interval(count, nobs, alpha)
    /\ pc' = "returned"
    /\ UNCHANGED <<sizes, dataVars, resampleVars>>

\* lines 53, 74: the rates are conv / n of each group
CallLiftCi ==
    /\ pc = "idle"
    /\ \E n_control \in 1..MaxLiftN, n_treatment \in 1..MaxLiftN, alpha \in Alphas :
       \E conv_ctrl \in 0..n_control, conv_treat \in 0..n_treatment :
          LET rate_c == FDiv(FromInt(conv_ctrl), FromInt(n_control))
              rate_t == FDiv(FromInt(conv_treat), FromInt(n_treatment))
          IN  /\ fn' = "compute_lift_ci"
              /\ args' = [rate_control |-> rate_c, rate_treatment |-> rate_t,
                          n_control |-> n_control, n_treatment |-> n_treatment,
                          alpha |-> alpha]
              /\ ret' = compute_lift_ci(rate_c, rate_t, n_control,
                                        n_treatment, alpha)
    /\ pc' = "returned"
    /\ UNCHANGED <<sizes, dataVars, resampleVars>>

\* line 78: h = cohens_h(cvr_treat, cvr_ctrl)
CallCohensH ==
    /\ pc = "idle"
    /\ \E p1 \in Quarters, p2 \in Quarters :
          /\ fn' = "cohens_h"
          /\ args' = [p1 |-> p1, p2 |-> p2]
          /\ ret' = [k |-> "h", h |-> cohens_h(p1, p2)]
    /\ pc' = "returned"
    /\ UNCHANGED <<sizes, dataVars, resampleVars>>

\* lines 36-39: for mde in [...]: n = required_sample_size(0.032, mde, ...)
PowerAnalysisStart ==
    /\ pc = "idle"
    /\ \E baseline \in BaselineRates, mdes \in MdeLists, alpha \in Alphas,
          power \in Powers :
          args' = [baseline_rate |-> baseline, mdes |-> mdes, alpha |-> alpha,
                   power |-> power]
    /\ fn' = "required_sample_size"
    /\ ret' = NoValue
    /\ sizes' = <<>>
    /\ pc' = "power"
    /\ UNCHANGED <<resampleVars, dataVars>>

PowerAnalysisLoop ==
    /\ pc = "power"
    /\ Len(sizes) < Len(args.mdes)
    /\ LET mde == args.mdes[Len(sizes) + 1]
           n == required_sample_size(Permille(args.baseline_rate), Permille(mde),
                                     args.alpha, args.power)
       IN  /\ ret' = n
           /\ sizes' = Append(sizes, [mde |-> mde, n |-> n])
    /\ UNCHANGED <<pc, fn, args, resampleVars, dataVars>>

PowerAnalysisDone ==
    /\ pc = "power"
    /\ Len(sizes) = Len(args.mdes)
    /\ pc' = "returned"
    /\ UNCHANGED <<fn, args, ret, sizes, dataVars, resampleVars>>

\* the script goes on to its next statement; the results are discarded.
\* Nothing resets a generator object: what is left of it stays where it was.
Return ==
    /\ pc = "returned"
    /\ pc' = "idle"
    /\ fn' = "none"
    /\ args' = NoValue
    /\ ret' = NoValue
    /\ sizes' = <<>>
    /\ diffs' = <<>>
    /\ perm' = <<>>
    /\ perm_diffs' = <<>>
    /\ halves' = <<>>
    /\ records' = <<>>
    /\ day_idx' = 0
    /\ UNCHANGED <<rng, ref>>

Next ==
    \/ CallConfidenceInterval
    \/ CallLiftCi
    \/ CallCohensH
    \/ PowerAnalysisStart
    \/ PowerAnalysisLoop
    \/ PowerAnalysisDone
    \/ Return

Spec == Init /\ [][Next]_vars

----------------------------------------------------------------------------
(* The resampling calls of the script, sections 3 and 5d                    *)

\* revenue samples, significance levels in twentieths, seeds
Samples == {<<0>>, <<2, 2>>, <<0, 1>>, <<0, 0, 5>>}
CiLevels == {2, 19}
Seeds == {42, 7}

HasBothGroups(df) ==
    /\ \E i \in 1..Len(df) : df[i].group = "control"
    /\ \E i \in 1..Len(df) : df[i].group = "treatment"

\* what generate_dataset can write: rows of either group, both present
Datasets ==
    {df \in UNION {[1..n -> Rows] : n \in 2..MaxRows} : HasBothGroups(df)}

\* the smaller inputs of the runs that are compared with an earlier run
FewSamples == {<<0, 1>>, <<0, 0, 5>>}
FewLevels == {19}
FewDatasets ==
    {<<[group |-> "control", converted |-> 0],
       [group |-> "treatment", converted |-> 1],
       [group |-> "treatment", converted |-> 0]>>,
     <<[group |-> "treatment", converted |-> 1],
       [group |-> "control", converted |-> 1],
       [group |-> "control", converted |-> 0],
       [group |-> "treatment", converted |-> 0]>>}

\* one more call has started since the run kept in ref
Later(r) ==
    IF r.k = "call" /\ r.later < 2 THEN [r EXCEPT !.later = @ + 1] ELSE r

\* line 98 and stats_utils.py lines 54-55
BootstrapStart(samples, levels) ==
    /\ pc = "idle"
    /\ \E group_a \in samples, group_b \in samples, n_boot \in 1..MaxBoot,
          ci \in levels, seed \in Seeds :
          /\ args' = [group_a |-> group_a, group_b |-> group_b,
                      n_boot |-> n_boot, ci |-> ci, seed |-> seed]
          /\ rng' = default_rng(seed)
    /\ fn' = "bootstrap_mean_diff"
    /\ ret' = NoValue
    /\ diffs' = <<>>
    /\ pc' = "boot"
    /\ ref' = Later(ref)
    /\ UNCHANGED <<sizes, dataVars, perm, perm_diffs>>

\* stats_utils.py lines 56-59: one iteration
BootstrapLoop ==
    /\ pc = "boot"
    /\ Len(diffs) < args.n_boot
    /\ LET sample_a == rng_choice(rng, args.group_a, Len(args.group_a))
           sample_b == rng_choice(sample_a.rng, args.group_b, Len(args.group_b))
       IN  /\ diffs' = Append(diffs, MeanDiff(sample_a.out, sample_b.out))
           /\ rng' = sample_b.rng
           /\ args' = [args EXCEPT
                          !.group_a = AfterChoice(@, sample_a.out),
                          !.group_b = AfterChoice(@, sample_b.out)]
    /\ UNCHANGED <<pc, fn, ret, sizes, dataVars, perm, perm_diffs, ref>>

\* stats_utils.py lines 60-62
BootstrapReturn ==
    /\ pc = "boot"
    /\ Len(diffs) = args.n_boot
    /\ ret' = BootstrapResult(diffs, args.ci)
    /\ pc' = "returned"
    /\ UNCHANGED <<fn, args, sizes, dataVars, rng, diffs, perm, perm_diffs, ref>>

\* lines 148-151
PermutationStart(datasets) ==
    /\ pc = "idle"
    /\ \E df \in datasets : args' = [df |-> df]
    /\ fn' = "permutation_test"
    /\ ret' = NoValue
    /\ rng' = default_rng(PermSeed)
    /\ perm' = <<>>
    /\ perm_diffs' = <<>>
    /\ pc' = "perm"
    /\ ref' = Later(ref)
    /\ UNCHANGED <<sizes, dataVars, diffs>>

\* lines 152-154: one iteration
PermutationLoop ==
    /\ pc = "perm"
    /\ Len(perm_diffs) < NPermutations
    /\ LET shuffled == rng_permutation(rng, Len(combined(args.df)))
       IN  /\ perm' = shuffled.out
           /\ rng' = shuffled.rng
           /\ perm_diffs' = Append(perm_diffs, PermDiff(args.df, shuffled.out))
           /\ args' = [args EXCEPT !.df = AfterPermutation(@, shuffled.out)]
    /\ UNCHANGED <<pc, fn, ret, sizes, dataVars, diffs, ref>>

\* line 155
PermutationReturn ==
    /\ pc = "perm"
    /\ Len(perm_diffs) = NPermutations
    /\ ret' = [k |-> "perm",
               perm_p |-> PermPValue(perm_diffs, observed_diff(args.df))]
    /\ pc' = "returned"
    /\ UNCHANGED <<fn, args, sizes, dataVars, rng, diffs, perm, perm_diffs, ref>>

\* keeps the finished call and its result, to compare a later call with
Remember ==
    /\ pc = "returned"
    /\ ref.k = "none"
    /\ fn \in {"bootstrap_mean_diff", "permutation_test"}
    /\ ref' = [k |-> "call", fn |-> fn, args |-> args, ret |-> ret, later |-> 0]
    /\ UNCHANGED <<pc, fn, args, ret, sizes, dataVars, rng, diffs, perm, perm_diffs>>

BootstrapAny == BootstrapStart(Samples, CiLevels)
PermutationAny == PermutationStart(Datasets)
BootstrapFew == BootstrapStart(FewSamples, FewLevels)
PermutationFew == PermutationStart(FewDatasets)

NextResample ==
    \/ BootstrapAny
    \/ BootstrapLoop
    \/ BootstrapReturn
    \/ PermutationAny
    \/ PermutationLoop
    \/ PermutationReturn
    \/ Return

SpecResample == Init /\ [][NextResample]_vars

NextSeeded ==
    \/ BootstrapFew
    \/ BootstrapLoop
    \/ BootstrapReturn
    \/ PermutationFew
    \/ PermutationLoop
    \/ PermutationReturn
    \/ Remember
    \/ Return

SpecSeeded == Init /\ [][NextSeeded]_vars

----------------------------------------------------------------------------
(* The primary metric, src/notebooks/03_statistical_analysis.py 51-78       *)

\* the z statistic with the two groups the other way round
proportions_zstat_reversed(count, nobs) ==
    LET prop == [i \in 1..2 |-> FDiv(FromInt(count[i]), FromInt(nobs[i]))]
        diff == FSub(prop[2], prop[1])
        p_pooled == FDiv(FromInt(count[1] + count[2]),
                         FromInt(nobs[1] + nobs[2]))
        nobs_fact == FAdd(FDiv(One, FromInt(nobs[1])),
                          FDiv(One, FromInt(nobs[2])))
        var_ == FMul(FMul(p_pooled, FSub(One, p_pooled)), nobs_fact)
    IN  FDiv(diff, FSqrt(var_))

\* stats_utils.py lines 18-21: the z statistic of
\* proportions_ztest(successes, nobs, alternative='two-sided'), the pooled
\* two-sample test of prop[0] - prop[1]
proportions_zstat(count, nobs) ==
    LET prop == [i \in 1..2 |-> FDiv(FromInt(count[i]), FromInt(nobs[i]))]
        diff == FSub(prop[1], prop[2])
        p_pooled == FDiv(FromInt(count[1] + count[2]),
                         FromInt(nobs[1] + nobs[2]))
        nobs_fact == FAdd(FDiv(One, FromInt(nobs[1])),
                          FDiv(One, FromInt(nobs[2])))
        var_ == FMul(FMul(p_pooled, FSub(One, p_pooled)), nobs_fact)
    IN  FDiv(diff, FSqrt(var_))

\* data sets whose group rates are multiples of a quarter
PrimaryDatasets ==
    {df \in Datasets : 4 % n_ctrl(df) = 0 /\ 4 % n_treat(df) = 0}

\* line 52: the conversions of a group
Conversions(df, g) == SumInts(Converted(Select(df, g)))

\* lines 51-78: the rates, the z-test, the lift and the effect size
PrimaryMetric ==
    /\ pc = "idle"
    /\ \E df \in PrimaryDatasets :
          LET conv_ctrl == Conversions(df, "control")
              conv_treat == Conversions(df, "treatment")
              rate_c == FDiv(FromInt(conv_ctrl), FromInt(n_ctrl(df)))
              rate_t == FDiv(FromInt(conv_treat), FromInt(n_treat(df)))
          IN  /\ args' = [df |-> df]
              /\ ret' = [k |-> "primary",
                         z_stat |-> proportions_zstat(
                                        <<conv_treat, conv_ctrl>>,
                                        <<n_treat(df), n_ctrl(df)>>),
                         diff |-> compute_lift_ci(rate_c, rate_t, n_ctrl(df),
                                                  n_treat(df), 50).diff,
                         h |-> cohens_h((4 * conv_treat) \div n_treat(df),
                                        (4 * conv_ctrl) \div n_ctrl(df))]
    /\ fn' = "primary_metric"
    /\ pc' = "returned"
    /\ UNCHANGED <<sizes, dataVars, resampleVars>>

NextDirection ==
    \/ PrimaryMetric
    \/ BootstrapAny
    \/ BootstrapLoop
    \/ BootstrapReturn
    \/ PermutationAny
    \/ PermutationLoop
    \/ PermutationReturn
    \/ Return

SpecDirection == Init /\ [][NextDirection]_vars

----------------------------------------------------------------------------
(* Temporal stability, src/notebooks/03_statistical_analysis.py 137-144     *)

DatedRows == [date : 0..MaxDate, group : {"control", "treatment"},
              converted : {0, 1}]

\* generate_dataset writes its rows sorted by timestamp
SortedByDate(df) == \A i \in 1..(Len(df) - 1) : df[i].date <= df[i + 1].date

DatedDatasets ==
    {df \in UNION {[1..n -> DatedRows] : n \in 1..MaxDatedRows} :
        SortedByDate(df)}

Dates(df) == [i \in 1..Len(df) |-> df[i].date]

RECURSIVE Unique(_)
\* Series.unique(): the distinct values in order of first appearance
Unique(s) ==
    IF s = <<>> THEN <<>>
    ELSE LET u == Unique(SubSeq(s, 1, Len(s) - 1))
             x == s[Len(s)]
         IN  IF \E i \in 1..Len(u) : u[i] = x THEN u ELSE Append(u, x)

\* line 138: df.date.unique()[len(df.date.unique()) // 2]
Midpoint(df) ==
    LET u == Unique(Dates(df)) IN u[(Len(u) \div 2) + 1]

\* lines 139-140: the boolean masks, as the sets of rows they select
HalfLabels == <<"First half", "Second half">>
HalfMask(df, label, midpoint) ==
    IF label = "First half"
    THEN {i \in 1..Len(df) : df[i].date <= midpoint}
    ELSE {i \in 1..Len(df) : df[i].date > midpoint}

RECURSIVE Keep(_, _)
\* line 141: df[mask]
Keep(df, mask) ==
    IF df = <<>> THEN <<>>
    ELSE LET rest == Keep(SubSeq(df, 1, Len(df) - 1), mask)
         IN  IF Len(df) \in mask THEN Append(rest, df[Len(df)]) ELSE rest

\* the mean of an empty Series is nan
EmptyMean == [k |-> "nan"]

\* lines 142-143: sub[sub.group == g].converted.mean()
GroupMean(sub, g) ==
    LET s == Converted(Select(sub, g))
    IN  IF s = <<>> THEN EmptyMean ELSE MeanInts(s)

\* line 144: t - c
HalfLift(c, t) ==
    IF c = EmptyMean \/ t = EmptyMean THEN EmptyMean ELSE RSub(t, c)

TemporalStart ==
    /\ pc = "idle"
    /\ \E df \in DatedDatasets :
          /\ args' = [df |-> df]
          /\ ret' = [k |-> "midpoint", midpoint |-> Midpoint(df)]
    /\ fn' = "temporal_stability"
    /\ halves' = <<>>
    /\ pc' = "halves"
    /\ UNCHANGED <<sizes, resampleVars, records, day_idx>>

\* lines 139-144: one pass of the loop over the two windows
TemporalLoop ==
    /\ pc = "halves"
    /\ Len(halves) < Len(HalfLabels)
    /\ LET label == HalfLabels[Len(halves) + 1]
           mask == HalfMask(args.df, label, ret.midpoint)
           sub == Keep(args.df, mask)
           c == GroupMean(sub, "control")
           t == GroupMean(sub, "treatment")
       IN  halves' = Append(halves, [label |-> label, mask |-> mask, c |-> c,
                                     t |-> t, lift |-> HalfLift(c, t)])
    /\ UNCHANGED <<pc, fn, args, ret, sizes, resampleVars, records, day_idx>>

TemporalDone ==
    /\ pc = "halves"
    /\ Len(halves) = Len(HalfLabels)
    /\ pc' = "returned"
    /\ UNCHANGED <<fn, args, ret, sizes, resampleVars, dataVars>>

NextTemporal ==
    \/ TemporalStart
    \/ TemporalLoop
    \/ TemporalDone
    \/ Return

SpecTemporal == Init /\ [][NextTemporal]_vars

----------------------------------------------------------------------------
(* generate_dataset, src/notebooks/01_generate_data.py lines 54-135        *)
(* Rates are in units of 1e-7, order values in tenths of a cent, revenue  *)
(* in cents.                                                              *)

BASELINE_CVR == 320000
TRUE_TREATMENT_LIFT == 40000
NOVELTY_PEAK == 30000
NOVELTY_HALFLIFE == 4
AovFloor == 5000

Devices == {"desktop", "mobile", "tablet"}
\* the multipliers, in hundredths
DEVICE_CVR_MULT(device) ==
    CASE device = "desktop" -> 115 [] device = "mobile" -> 82
      [] device = "tablet" -> 105
DOW_CVR_MULT == <<100, 101, 100, 99, 103, 96, 94>>

\* 10000 * 2^(-r / 4) for r = 0, 1, 2, 3
QuarterLifeDecay == <<10000, 8409, 7071, 5946>>
\* lines 49-50: NOVELTY_PEAK * exp(-log(2) * day_index / NOVELTY_HALFLIFE)
novelty_effect(day_index) ==
    (NOVELTY_PEAK * QuarterLifeDecay[(day_index % NOVELTY_HALFLIFE) + 1])
        \div (10000 * 2^(day_index \div NOVELTY_HALFLIFE))

\* lines 95-98
SessionCvr(dow, group, device, day) ==
    (((BASELINE_CVR * DOW_CVR_MULT[dow + 1]) \div 100)
        * DEVICE_CVR_MULT(device)) \div 100
        + (IF group = "treatment"
           THEN TRUE_TREATMENT_LIFT + novelty_effect(day) ELSE 0)

\* line 100: int(RNG.random() < cvr)
ConvertedOf(u, cvr) == IF u < cvr THEN 1 ELSE 0

Max(a, b) == IF a >= b THEN a ELSE b
\* round(x, 2): to the nearest cent, ties to the even cent
RoundCents(m) ==
    LET q == m \div 10
        r == m % 10
    IN  IF r > 5 \/ (r = 5 /\ q % 2 = 1) THEN q + 1 ELSE q

\* the revenue of a session without the $5 floor
RevenueUnfloored(converted, aov) ==
    IF converted = 1 THEN RoundCents(aov) ELSE 0
\* lines 103-107
RevenueOf(converted, aov) ==
    IF converted = 1 THEN RoundCents(Max(aov, AovFloor)) ELSE 0

\* what the generator draws for one session: group, device, the uniform
\* of line 100 and the normal order value of line 105
SessionCounts == {0, 1}
Uniforms == {0, 400000, 9999999}
Aovs == {-12500, 4994, 5005, 68125}
SessionDraws == [group : {"control", "treatment"}, device : Devices,
                 u : Uniforms, aov : Aovs]
DayDraws == UNION {[1..n -> SessionDraws] : n \in SessionCounts}

\* lines 88-131: the record of one session
SessionRecord(day, d) ==
    LET cvr == SessionCvr(day % 7, d.group, d.device, day)
        converted == ConvertedOf(d.u, cvr)
    IN  [date |-> day, group |-> d.group, device |-> d.device,
         converted |-> converted, revenue |-> RevenueOf(converted, d.aov)]

RECURSIVE AppendSessions(_, _, _)
\* lines 88-131: for i in range(n_sessions): ... records.append(...)
AppendSessions(recs, day, draws) ==
    IF draws = <<>> THEN recs
    ELSE AppendSessions(Append(recs, SessionRecord(day, Head(draws))), day,
                        Tail(draws))

RECURSIVE SortByTimestamp(_)
\* line 134: df.sort_values('timestamp'), an insertion sort on the date
SortByTimestamp(recs) ==
    IF recs = <<>> THEN <<>>
    ELSE LET rest == SortByTimestamp(SubSeq(recs, 1, Len(recs) - 1))
             x == recs[Len(recs)]
             k == Cardinality({i \in 1..Len(rest) : rest[i].date <= x.date})
         IN  SubSeq(rest, 1, k) \o <<x>> \o SubSeq(rest, k + 1, Len(rest))

\* lines 54-56
GenerateStart ==
    /\ pc = "idle"
    /\ fn' = "generate_dataset"
    /\ args' = NoValue
    /\ ret' = NoValue
    /\ records' = <<>>
    /\ day_idx' = 0
    /\ pc' = "days"
    /\ UNCHANGED <<sizes, resampleVars, halves>>

\* lines 58-131: one day
GenerateDay ==
    /\ pc = "days"
    /\ day_idx < NDays
    /\ \E draws \in DayDraws :
          records' = AppendSessions(records, day_idx, draws)
    /\ day_idx' = day_idx + 1
    /\ UNCHANGED <<pc, fn, args, ret, sizes, resampleVars, halves>>

\* lines 133-135
GenerateReturn ==
    /\ pc = "days"
    /\ day_idx = NDays
    /\ ret' = [k |-> "df", df |-> SortByTimestamp(records)]
    /\ pc' = "returned"
    /\ UNCHANGED <<fn, args, sizes, resampleVars, dataVars>>

NextGenerate ==
    \/ GenerateStart
    \/ GenerateDay
    \/ GenerateReturn
    \/ Return

SpecGenerate == Init /\ [][NextGenerate]_vars

----------------------------------------------------------------------------
(* Claims about the proportion-inference functions                          *)

ValidCount == fn = "compute_confidence_interval" /\ args.nobs >= 1
                 /\ args.count <= args.nobs

\* C1: for 0 <= count <= n, n >= 1, the Wilson interval returned by
\* compute_confidence_interval satisfies 0 <= lower <= count/n <= upper <= 1.
C1_WilsonBrackets ==
    (pc = "returned" /\ ValidCount) =>
        LET q == FDiv(FromInt(args.count), FromInt(args.nobs))
        IN  /\ FLeq(Zero, ret.lo)
            /\ FLeq(ret.lo, q)
            /\ FLeq(q, ret.hi)
            /\ FLeq(ret.hi, One)

\* C2: compute_lift_ci returns (diff, lower, upper) with lower <= diff <= upper
\* and diff = rate_treatment - rate_control.
C2_LiftBrackets ==
    (pc = "returned" /\ fn = "compute_lift_ci") =>
        /\ FEq(ret.diff, FSub(args.rate_treatment, args.rate_control))
        /\ FLeq(ret.lo, ret.diff)
        /\ FLeq(ret.diff, ret.hi)

C2_Witness ==
    /\ pc = "returned"
    /\ fn = "compute_lift_ci"
    /\ args.rate_treatment # args.rate_control
    /\ ret.lo # ret.diff
    /\ ret.hi # ret.diff

\* C9: cohens_h(p, p) = 0 for every proportion p in [0, 1].
C9_EqualProportionsNoEffect ==
    (pc = "returned" /\ fn = "cohens_h" /\ args.p1 = args.p2
        /\ args.p1 >= 0 /\ args.p1 <= 4) => FEq(ret.h, Zero)

C9_Witness ==
    /\ pc = "returned"
    /\ fn = "cohens_h"
    /\ args.p1 = 2
    /\ args.p2 = 2
    /\ ret.h = Zero

C10_InvalidCountRaises ==
    (pc = "returned" /\ fn = "compute_confidence_interval"
        /\ (args.count > args.nobs \/ args.nobs = 0)) => ret.k = "raise"

----------------------------------------------------------------------------
(* Claims about the resampling routines                                     *)

SameCallAsRef == pc = "returned" /\ ref.k = "call" /\ ref.fn = fn /\ ref.args = args

\* C3: a bootstrap or permutation run with the inputs and seed of an earlier
\* run returns what the earlier run returned, whatever ran in between.
C3_SeededRunsRepeat == SameCallAsRef => ref.ret = ret

C3_Witness ==
    /\ SameCallAsRef
    /\ ref.later = 2
    /\ fn = "bootstrap_mean_diff"
    /\ ret.lo # ret.hi
    /\ ref.ret = ret

BootReturned == pc = "returned" /\ fn = "bootstrap_mean_diff"

IsConstant(s) == \A i \in 1..Len(s) : s[i] = s[1]

\* C4 as stated: identical samples give observed_diff = 0 and an interval
\* that contains 0.
C4_IdenticalSamplesZero ==
    (BootReturned /\ args.group_a = args.group_b) =>
        /\ ret.point = RInt(0)
        /\ RLeq(ret.lo, RInt(0))
        /\ RLeq(RInt(0), ret.hi)

\* C4 as amended: identical samples whose elements are all equal give
\* point = lower = upper = 0.
C4_ConstantSamplesZero ==
    (BootReturned /\ args.group_a = args.group_b /\ IsConstant(args.group_a)) =>
        /\ ret.point = RInt(0)
        /\ ret.lo = RInt(0)
        /\ ret.hi = RInt(0)

C4_Witness ==
    /\ BootReturned
    /\ args.group_a = <<2, 2>>
    /\ args.group_b = <<2, 2>>
    /\ args.n_boot >= 2
    /\ ret.point = RInt(0)

\* C5 as stated: lower <= point <= upper.
C5_PointInsideInterval ==
    BootReturned => (RLeq(ret.lo, ret.point) /\ RLeq(ret.point, ret.hi))

\* C5 as amended: lower <= upper.
C5_PercentilesOrdered == BootReturned => RLeq(ret.lo, ret.hi)

C5_Witness ==
    /\ BootReturned
    /\ RLt(ret.lo, ret.hi)
    /\ RLt(ret.hi, ret.point)

PermReturned == pc = "returned" /\ fn = "permutation_test"

\* C7: the p-value is the fraction of the permuted differences d with
\* |d| >= |cvr_treat - cvr_ctrl|, and lies in [0, 1].
C7_PValueIsExtremeFraction ==
    PermReturned =>
        LET obs == RSub(cvr_treat(args.df), cvr_ctrl(args.df))
            extreme == {i \in 1..Len(perm_diffs) :
                           RLeq(RAbs(obs), RAbs(perm_diffs[i]))}
        IN  /\ Len(perm_diffs) = NPermutations
            /\ ret.perm_p = Rat(Cardinality(extreme), NPermutations)
            /\ RLeq(RInt(0), ret.perm_p)
            /\ RLeq(ret.perm_p, RInt(1))

C7_Witness ==
    /\ PermReturned
    /\ RLt(RInt(0), ret.perm_p)
    /\ RLt(ret.perm_p, RInt(1))
    /\ \E i \in 1..Len(perm_diffs) : RAbs(perm_diffs[i]) = RAbs(observed_diff(args.df))

\* C8: after every iteration the two pseudo-groups have the sizes of the
\* treatment and control groups, take distinct elements of the pooled array,
\* take all of them, and so hold the pooled number of conversions.
C8_PseudoGroupsPartition ==
    (fn = "permutation_test" /\ perm # <<>>) =>
        LET df == args.df
            n == Len(combined(df))
            first == {perm[i] : i \in 1..n_treat(df)}
            second == {perm[n_treat(df) + i] : i \in 1..n_ctrl(df)}
        IN  /\ Len(perm) = n
            /\ Cardinality(first) = n_treat(df)
            /\ Cardinality(second) = n_ctrl(df)
            /\ first \cap second = {}
            /\ first \cup second = 1..n
            /\ SumInts(PseudoTreat(df, perm)) + SumInts(PseudoCtrl(df, perm))
                   = SumInts(combined(df))

C8_Witness ==
    /\ fn = "permutation_test"
    /\ pc = "perm"
    /\ Len(perm_diffs) = NPermutations
    /\ perm # [i \in 1..Len(perm) |-> i]
    /\ SumInts(PseudoTreat(args.df, perm)) > 0
    /\ SumInts(PseudoCtrl(args.df, perm)) > 0

----------------------------------------------------------------------------
(* Claims about invalid arguments                                           *)

\* C11: required_sample_size raises and returns no sample size whenever
\* baseline_rate is 0 or 1.
C11_DegenerateBaselineRaises ==
    (fn = "required_sample_size" /\ args.baseline_rate \in {0, 1000}) =>
        \A i \in 1..Len(sizes) : sizes[i].n.k = "raise"

\* C12: cohens_h raises and returns no effect size whenever p1 or p2 lies
\* outside [0, 1].
C12_OutOfRangeProportionRaises ==
    (pc = "returned" /\ fn = "cohens_h"
        /\ (args.p1 < 0 \/ args.p1 > 4 \/ args.p2 < 0 \/ args.p2 > 4)) =>
        ret.k = "raise"

----------------------------------------------------------------------------
(* Claims about what the resampling loops leave alone                       *)

\* C14: no iteration of the bootstrap loop changes group_a or group_b, and
\* no iteration of the permutation loop changes the pooled array: every
\* iteration resamples from the data the call was given.
C14_InputsUntouched ==
    [][/\ (pc = "boot" /\ pc' = "boot") =>
              /\ args'.group_a = args.group_a
              /\ args'.group_b = args.group_b
       /\ (pc = "perm" /\ pc' = "perm") =>
              combined(args'.df) = combined(args.df)]_vars

\* two iterations done, the last shuffle moved a conversion
C14_Witness ==
    /\ pc = "perm"
    /\ Len(perm_diffs) >= 2
    /\ [i \in 1..Len(perm) |-> combined(args.df)[perm[i]]] # combined(args.df)

----------------------------------------------------------------------------
(* Claims about the time-window check                                       *)

\* the rows of window h that belong to group g
WindowRows(h, g) == {i \in halves[h].mask : args.df[i].group = g}
\* the conversion rate of a set of rows, nan when there are none
RateOf(rows) ==
    IF rows = {} THEN EmptyMean
    ELSE Rat(Cardinality({i \in rows : args.df[i].converted = 1}),
             Cardinality(rows))

\* C13: every observation is in exactly one of the two windows; with two or
\* more distinct dates in the data neither window is empty; the rates and
\* the lift of a window come from the observations of that window only.
C13_WindowsSplitTheData ==
    (pc = "returned" /\ fn = "temporal_stability") =>
        /\ halves[1].mask \cap halves[2].mask = {}
        /\ halves[1].mask \cup halves[2].mask = 1..Len(args.df)
        /\ Cardinality({args.df[i].date : i \in 1..Len(args.df)}) >= 2 =>
               (halves[1].mask # {} /\ halves[2].mask # {})
        /\ \A h \in 1..2 :
               /\ halves[h].c = RateOf(WindowRows(h, "control"))
               /\ halves[h].t = RateOf(WindowRows(h, "treatment"))
               /\ halves[h].lift = HalfLift(halves[h].c, halves[h].t)

----------------------------------------------------------------------------
(* Claims about the generated records                                       *)

ConsistentRecord(r) ==
    /\ r.converted \in {0, 1}
    /\ r.revenue >= 0
    /\ (r.revenue = 0) <=> (r.converted = 0)
    /\ r.converted = 1 => r.revenue >= 500

\* C15: every record generate_dataset appends or returns has converted in
\* {0, 1}, a revenue of at least 0, and a revenue of 0 exactly when it did
\* not convert; a converted record has a revenue of at least $5.
C15_RevenueOnlyOnConversion ==
    /\ \A i \in 1..Len(records) : ConsistentRecord(records[i])
    /\ (pc = "returned" /\ fn = "generate_dataset") =>
           /\ Len(ret.df) = Len(records)
           /\ \A i \in 1..Len(ret.df) : ConsistentRecord(ret.df[i])

\* a returned data set with a purchase held at the floor and a session
\* that did not convert
C15_Witness ==
    /\ pc = "returned"
    /\ fn = "generate_dataset"
    /\ \E i \in 1..Len(ret.df) :
          ret.df[i].converted = 1 /\ ret.df[i].revenue = 500
    /\ \E i \in 1..Len(ret.df) : ret.df[i].converted = 0

----------------------------------------------------------------------------
(* Claims about the direction of the reported effects                       *)

FPositive(x) == x.k # "nan" /\ x.m > 0
FNegative(x) == x.k # "nan" /\ x.m < 0
RPositive(x) == x.num > 0
RNegative(x) == x.num < 0

\* every element of s is above every element of t
AllAbove(s, t) == \A i \in 1..Len(s), j \in 1..Len(t) : s[i] > t[j]

\* the z statistic, the lift, Cohen's h and the observed difference of the
\* permutation test have the sign of cvr_treat - cvr_ctrl
PrimarySignsAgree ==
    (pc = "returned" /\ fn = "primary_metric") =>
        LET up == RLt(cvr_ctrl(args.df), cvr_treat(args.df))
            down == RLt(cvr_treat(args.df), cvr_ctrl(args.df))
        IN  /\ FPositive(ret.z_stat) <=> up
            /\ FNegative(ret.z_stat) <=> down
            /\ FPositive(ret.diff) <=> up
            /\ FNegative(ret.diff) <=> down
            /\ FPositive(ret.h) <=> up
            /\ FNegative(ret.h) <=> down
            /\ RPositive(observed_diff(args.df)) <=> up
            /\ RNegative(observed_diff(args.df)) <=> down

\* a permuted difference has the sign of pseudo-treatment minus
\* pseudo-control
PermutedSignsAgree ==
    (fn = "permutation_test" /\ perm # <<>>) =>
        LET d == perm_diffs[Len(perm_diffs)]
            treat == MeanInts(PseudoTreat(args.df, perm))
            ctrl == MeanInts(PseudoCtrl(args.df, perm))
        IN  /\ RPositive(d) <=> RLt(ctrl, treat)
            /\ RNegative(d) <=> RLt(treat, ctrl)

\* C16 as stated: the z statistic, Cohen's h, the lift, the observed and
\* permuted differences and the bootstrap mean difference are each positive
\* exactly when the treatment value exceeds the control value.
C16_AllSignsFollowTheGroups ==
    /\ PrimarySignsAgree
    /\ PermutedSignsAgree
    /\ BootReturned =>
           (RPositive(ret.point) <=>
                RLt(MeanInts(args.group_a), MeanInts(args.group_b)))

\* C16, amended: the z statistic, Cohen's h, the lift and the observed
\* difference are positive exactly when cvr_treat exceeds cvr_ctrl and
\* negative exactly when cvr_ctrl exceeds cvr_treat; a permuted difference
\* likewise for the two pseudo-groups; the bootstrap mean difference is
\* positive when every treatment observation exceeds every control
\* observation and negative when every control observation exceeds every
\* treatment observation.
C16_TreatmentMinusControl ==
    /\ PrimarySignsAgree
    /\ PermutedSignsAgree
    /\ BootReturned =>
           /\ AllAbove(args.group_b, args.group_a) => RPositive(ret.point)
           /\ AllAbove(args.group_a, args.group_b) => RNegative(ret.point)

\* the treatment group converts more often and every statistic is positive
C16_Witness ==
    /\ pc = "returned"
    /\ fn = "primary_metric"
    /\ RLt(RInt(0), cvr_ctrl(args.df))
    /\ RLt(cvr_ctrl(args.df), cvr_treat(args.df))
    /\ FPositive(ret.z_stat)
    /\ FPositive(ret.h)

====
